---------------------------- MODULE Spec2Model ----------------------------
(***************************************************************************)
(* wlim: click hints for wayland.  A model of src/wlim.c: label            *)
(* generation, the accessibility-tree walk with near-duplicate filtering,  *)
(* the per-window geometry normalisation of collect_all_targets, and the   *)
(* key handler of the hint overlay with the click issued at shutdown.      *)
(*                                                                         *)
(* Characters are their ASCII codes ('a' = 97), strings are sequences of   *)
(* characters, and the targets array is the sequence of its first          *)
(* n_targets entries (no code reads an entry at or beyond n_targets).      *)
(***************************************************************************)
EXTENDS Integers, Sequences, FiniteSets

VARIABLES
    pc,            \* where the program is
    targets,       \* State.targets[0 .. n_targets-1]
    n_targets,     \* State.n_targets
    typed,         \* State.typed (typed_len is its length)
    should_click,  \* State.should_click
    click_x,       \* State.click_x
    click_y,       \* State.click_y
    click_button,  \* State.click_button
    ev,            \* the key event on_key handled last: keyval and modifiers
    trace,         \* what the overlay session did so far, in order
    start,         \* collect_all_targets: where the current window's targets start
    stack,         \* walk: per depth, the children still to visit
    visited,       \* walk: nodes visited so far
    wins,          \* collect_all_targets: windows walked so far
    node,          \* walk: the node visited last and what became of it
    group,         \* collect_all_targets: the normalisation of the last window
    feed           \* the geometry lookup: the helper called last, its arguments
                   \* and what it returned

vars == <<pc, targets, n_targets, typed, should_click, click_x, click_y,
          click_button, ev, trace, start, stack, visited, wins, node, group,
          feed>>

sessionVars == <<typed, should_click, click_x, click_y, click_button, ev, trace>>

collectVars == <<start, stack, visited, wins, node, group, feed>>

---------------------------------------------------------------------------
(* Program constants *)

MAX_TARGETS == 1024

MAX_LABEL == 4

MAX_TYPED == 8

(* Bounds of the model *)

\* the overlay session is run for every target count 0 .. MaxSessionTargets
MaxSessionTargets == 28

\* the normaliser is applied to every group of up to MaxGroup targets
MaxGroup == 10

\* one window's walk visits at most MaxNodes nodes of a tree with at most
\* MaxKids children a node and MaxDepth levels below the root
MaxNodes == 13

\* the window loop walks at most MaxWindows windows of MaxWindowNodes nodes in all
MaxWindows == 3

MaxWindowNodes == 4

MaxKids == 3

MaxDepth == 2

\* a deep window is walked to MaxDeepDepth levels below its root, over at most
\* MaxDeepNodes nodes, its root having at most MaxDeepKids children, after
\* earlier windows left no target or all but up to MaxRoom of the MAX_TARGETS
MaxDeepDepth == 31

MaxDeepNodes == 34

MaxDeepKids == 2

MaxRoom == 3

\* the whole pipeline is run over at most MaxPipeWindows windows of
\* MaxPipeNodes nodes in all
MaxPipeNodes == 12

MaxPipeWindows == 2

---------------------------------------------------------------------------
(* C arithmetic *)

abs(a) == IF a < 0 THEN -a ELSE a

\* C integer division truncates toward zero
CDiv(a, b) ==
    IF (a >= 0) = (b > 0) THEN abs(a) \div abs(b) ELSE -(abs(a) \div abs(b))

IsPrefix(p, s) ==
    /\ Len(p) <= Len(s)
    /\ \A i \in 1..Len(p) : p[i] = s[i]

SetMax(S) == CHOOSE m \in S : \A k \in S : k <= m

---------------------------------------------------------------------------
(* Targets *)

\* a target as the walk stores it: bounds only, the rest still zero (State st = {0})
RawTarget(x, y, w, h) ==
    [x |-> x, y |-> y, w |-> w, h |-> h,
     lx |-> 0, ly |-> 0, cx |-> 0, cy |-> 0, label |-> << >>]

\* a target after the ordinary (non-broken) computation with an offset
OffsetTarget(tg, off_x, off_y) ==
    [tg EXCEPT !.cx = tg.x + off_x + CDiv(tg.w, 2),
               !.cy = tg.y + off_y + CDiv(tg.h, 2),
               !.lx = tg.x + off_x + 16,
               !.ly = tg.y + off_y + 8]

---------------------------------------------------------------------------
(* Label generation *)

RECURSIVE LabelLenLoop(_, _, _)
\* while (p < n) { len++; p *= 26; }
LabelLenLoop(len, p, n) ==
    IF p < n THEN LabelLenLoop(len + 1, p * 26, n) ELSE len

RECURSIVE LabelDigitsMsdLast(_, _, _)
\* (a wrong digit order: least significant digit first)
LabelDigitsMsdLast(label, v, j) ==
    IF j < 0 THEN label
    ELSE LabelDigitsMsdLast(
             [label EXCEPT ![Len(label) - j] = 97 + (v % 26)], CDiv(v, 26), j - 1)

RECURSIVE LabelDigits(_, _, _)
\* for (j = len - 1; j >= 0; j--) { label[j] = 'a' + (v % 26); v /= 26; }
\* label[j] of the code is label[j + 1] here
LabelDigits(label, v, j) ==
    IF j < 0 THEN label
    ELSE LabelDigits([label EXCEPT ![j + 1] = 97 + (v % 26)], CDiv(v, 26), j - 1)

\* (a wrong width: one letter too few once n passes a power of 26)
LabelOfNarrow(i, n) ==
    IF n <= 26 THEN << 97 + i >>
    ELSE LET len == LabelLenLoop(1, 26, n) - 1
         IN  LabelDigits([j \in 1..len |-> 0], i, len - 1)

\* the label generate_labels writes into t[i] (i from 0) when there are n targets
LabelOf(i, n) ==
    IF n <= 26 THEN << 97 + i >>
    ELSE LET len == LabelLenLoop(1, 26, n)
         IN  LabelDigits([j \in 1..len |-> 0], i, len - 1)

generate_labels(t, n) ==
    [i \in 1..Len(t) |->
        IF i <= n THEN [t[i] EXCEPT !.label = LabelOf(i - 1, n)] ELSE t[i]]

---------------------------------------------------------------------------
(* The tree walk: is_duplicate, walk *)

\* (a wrong window: only the last target is compared)
is_duplicate_last_only(out, n, x, y) ==
    \E i \in 0..(n - 1) :
        /\ i >= n - 1
        /\ abs(out[i + 1].x - x) <= 4
        /\ abs(out[i + 1].y - y) <= 4

\* (a wrong window: the whole list is compared)
is_duplicate_whole_list(out, n, x, y) ==
    \E i \in 0..(n - 1) :
        /\ abs(out[i + 1].x - x) <= 4
        /\ abs(out[i + 1].y - y) <= 4

\* for (i = n - 1; i >= 0 && i >= n - 10; i--) if (dx <= 4 && dy <= 4) return TRUE;
is_duplicate(out, n, x, y) ==
    \E i \in 0..(n - 1) :
        /\ i >= n - 10
        /\ abs(out[i + 1].x - x) <= 4
        /\ abs(out[i + 1].y - y) <= 4

\* what the accessibility bus answers for one node
NoStateSet == [null |-> TRUE, visible |-> FALSE, showing |-> FALSE]

StateSet(visible, showing) == [null |-> FALSE, visible |-> visible, showing |-> showing]

Rect(x, y, w, h) == [x |-> x, y |-> y, w |-> w, h |-> h]

\* a position no collected target is near: 60 beyond the n-th such position
Fresh(n) == Rect(60 * (n + 1), 0, 30, 20)

\* the extents offered for a node of a large tree when n targets are collected:
\* a fresh position and, from the ninth target on, positions 4 on both axes
\* from the first and from the ninth fresh position, and 4 and 5 from the first
WalkExtents(n) ==
    {Fresh(n)}
    \cup IF n >= 9
         THEN { Rect(60 + 4, 4, 30, 20), Rect(60 + 4, 5, 30, 20),
                Rect(60 * 9 - 4, -4, 30, 20) }
         ELSE {}

\* the extents offered for a node of a small tree: a fresh position or the origin
CollectExtents(n) == { Fresh(n), Rect(0, 0, 30, 20) }

\* a clickable, visible node with usable extents
ClickableNode(r, nc) ==
    [role_err |-> FALSE, ss |-> StateSet(TRUE, TRUE), clickable |-> TRUE,
     comp |-> TRUE, ext |-> "ok", rect |-> r, nc |-> nc]

\* the nodes offered to walk: candidates at every offered position, for each
\* lookup of walk a node on which that lookup fails or says no, and a node
\* that is not visible and whose role lookup fails
Nodes(n, extents) ==
    LET fresh == Fresh(n)
        c     == ClickableNode(fresh, 0)
    IN  UNION { { ClickableNode(r, nc) : r \in extents }
                \cup { [c EXCEPT !.role_err = TRUE, !.nc = nc],
                       [c EXCEPT !.role_err = TRUE, !.ss = StateSet(FALSE, TRUE),
                                 !.nc = nc],
                       [c EXCEPT !.ss = NoStateSet, !.nc = nc],
                       [c EXCEPT !.ss = StateSet(FALSE, TRUE), !.nc = nc],
                       [c EXCEPT !.ss = StateSet(TRUE, FALSE), !.nc = nc],
                       [c EXCEPT !.clickable = FALSE, !.nc = nc],
                       [c EXCEPT !.comp = FALSE, !.nc = nc],
                       [c EXCEPT !.ext = "null", !.nc = nc],
                       [c EXCEPT !.ext = "err", !.nc = nc],
                       [c EXCEPT !.rect = Rect(fresh.x, 0, 0, 20), !.nc = nc],
                       [c EXCEPT !.rect = Rect(fresh.x, 0, 30, 0), !.nc = nc] }
              : nc \in 0..MaxKids }

\* (a wrong depth ceiling: one level more)
OutcomeDeeper(nd, out, n, depth) ==
    IF depth > 31 \/ n >= MAX_TARGETS THEN "returned"
    ELSE IF nd.role_err THEN "not_candidate"
    ELSE IF depth > 0 /\ ~nd.ss.null /\ ~(nd.ss.visible /\ nd.ss.showing)
    THEN "hidden"
    ELSE IF ~(nd.clickable /\ nd.comp /\ nd.ext = "ok") THEN "not_candidate"
    ELSE IF ~(nd.rect.w > 0 /\ nd.rect.h > 0) THEN "not_candidate"
    ELSE IF is_duplicate(out, n, nd.rect.x, nd.rect.y) THEN "duplicate"
    ELSE "collected"

\* (a wrong visibility test: showing is not asked for)
OutcomeVisibleOnly(nd, out, n, depth) ==
    IF depth > 30 \/ n >= MAX_TARGETS THEN "returned"
    ELSE IF nd.role_err THEN "not_candidate"
    ELSE IF depth > 0 /\ ~nd.ss.null /\ ~nd.ss.visible THEN "hidden"
    ELSE IF ~(nd.clickable /\ nd.comp /\ nd.ext = "ok") THEN "not_candidate"
    ELSE IF ~(nd.rect.w > 0 /\ nd.rect.h > 0) THEN "not_candidate"
    ELSE IF is_duplicate(out, n, nd.rect.x, nd.rect.y) THEN "duplicate"
    ELSE "collected"

\* what walk does with one node at `depth` when n targets are collected:
\* "returned" (line 322), "hidden" (line 334), "collected", "duplicate", or
\* "not_candidate"; all but the first two go on to the children
Outcome(nd, out, n, depth) ==
    IF depth > 30 \/ n >= MAX_TARGETS THEN "returned"
    ELSE IF nd.role_err THEN "not_candidate"
    ELSE IF depth > 0 /\ ~nd.ss.null /\ ~(nd.ss.visible /\ nd.ss.showing)
    THEN "hidden"
    ELSE IF ~(nd.clickable /\ nd.comp /\ nd.ext = "ok") THEN "not_candidate"
    ELSE IF ~(nd.rect.w > 0 /\ nd.rect.h > 0) THEN "not_candidate"
    ELSE IF is_duplicate(out, n, nd.rect.x, nd.rect.y) THEN "duplicate"
    ELSE "collected"

RECURSIVE Unwind(_, _)
\* back out of every child loop that is finished: no child left, or the
\* target array full (the loop condition *n < MAX_TARGETS)
Unwind(st, n) ==
    IF st = << >> THEN st
    ELSE IF st[Len(st)] = 0 \/ n >= MAX_TARGETS
    THEN Unwind(SubSeq(st, 1, Len(st) - 1), n)
    ELSE st

---------------------------------------------------------------------------
(* Geometry normalisation: the body of collect_all_targets after walk *)

\* the targets of the current window: indices s+1 .. Len(t) (start .. n_targets-1)
GroupOf(t, s) == (s + 1)..Len(t)

Zeros(t, s) == Cardinality({k \in GroupOf(t, s) : t[k].x = 0 /\ t[k].y = 0})

\* (a wrong containment test: the whole rectangle must lie inside the window)
WindowRelWholeRect(t, s, ww, wh) ==
    Cardinality({k \in GroupOf(t, s) :
                    /\ t[k].x >= 0 /\ t[k].x + t[k].w <= ww
                    /\ t[k].y >= 0 /\ t[k].y + t[k].h <= wh})

\* window_rel: tg->x >= 0 && tg->x < ww && tg->y >= 0 && tg->y < wh
WindowRel(t, s, ww, wh) ==
    Cardinality({k \in GroupOf(t, s) :
                    /\ t[k].x >= 0 /\ t[k].x < ww
                    /\ t[k].y >= 0 /\ t[k].y < wh})

\* (a wrong threshold: more than 80%)
AtLeast80Strict(k, count) == 5 * k > 4 * count

\* (double)k / count >= 0.8, for 0 <= k <= count <= 1024: the quotient is the
\* double nearest to k/count and 0.8 the double nearest to 4/5, and no k/count
\* other than 4/5 is within 1/5120 of it, so the test is 5k >= 4count
AtLeast80(k, count) == 5 * k >= 4 * count

\* (a wrong guard: a resolved window of any size gets the grid)
GeomUsableAnySize(g) == g.found

\* found && ww > 0 && wh > 0
GeomUsable(g) == g.found /\ g.ww > 0 /\ g.wh > 0

\* found && ww > 0 && wh > 0 && (wx > 0 || wy > 0)
RelTest(g) == GeomUsable(g) /\ (g.wx > 0 \/ g.wy > 0)

\* off_x, off_y
Offset(t, s, g) ==
    IF RelTest(g) /\ AtLeast80(WindowRel(t, s, g.ww, g.wh), Len(t) - s)
    THEN << g.wx, g.wy >>
    ELSE << 0, 0 >>

\* (int)ceil(sqrt((double)count))
Cols(count) == CHOOSE c \in 0..count : c * c >= count /\ \A d \in 0..(c - 1) : d * d < count

\* (int)ceil((double)count / cols)
Rows(count, cols) == (count + cols - 1) \div cols

\* (int)(g0 + k * cell + cell / 2) with cell = (double)len / parts: exactly
\* (2 parts g0 + (2k + 1) len) / (2 parts), truncated.  The window sizes of
\* this model make every cell a whole number, so no double operation rounds.
CellCentre(g0, len, parts, k) ==
    CDiv(2 * parts * g0 + (2 * k + 1) * len, 2 * parts)

\* the grid position of the i-th target (i from 0) of a group of count
GridTarget(tg, i, count, g) ==
    LET m    == 30
        cols == Cols(count)
        rows == Rows(count, cols)
        px   == CellCentre(g.wx + m, g.ww - m * 2, IF cols # 0 THEN cols ELSE 1, i % cols)
        py   == CellCentre(g.wy + m, g.wh - m * 2, IF rows # 0 THEN rows ELSE 1, i \div cols)
    IN  [tg EXCEPT !.lx = px, !.ly = py, !.cx = px, !.cy = py]

\* which branch the window's group takes
Strategy(t, s, g) ==
    LET count == Len(t) - s
    IN  IF ~(count > 0) THEN "none"
        ELSE IF AtLeast80(Zeros(t, s), count)
        THEN IF GeomUsable(g) THEN "grid" ELSE "dropped"
        ELSE IF Offset(t, s, g) = << 0, 0 >> THEN "absolute" ELSE "offset"

\* the target list after the window's group was normalised
Normalize(t, s, g) ==
    LET strategy == Strategy(t, s, g)
        off      == Offset(t, s, g)
    IN  IF strategy = "none" THEN t
        ELSE IF strategy = "dropped" THEN SubSeq(t, 1, s)
        ELSE [k \in 1..Len(t) |->
                IF k <= s THEN t[k]
                ELSE IF strategy = "grid" THEN GridTarget(t[k], k - s - 1, Len(t) - s, g)
                ELSE OffsetTarget(t[k], off[1], off[2])]

\* the window geometry find_client_geom / find_client_geom_by_title resolve:
\* nothing found leaves wx, wy, ww, wh at 0
Geom(found, wx, wy, ww, wh) ==
    [found |-> found, wx |-> wx, wy |-> wy, ww |-> ww, wh |-> wh]

Geoms ==
    {Geom(FALSE, 0, 0, 0, 0)}
    \cup { Geom(TRUE, o[1], o[2], z[1], z[2]) :
             o \in { <<0, 0>>, <<500, 300>>, <<0, 300>>, <<-100, 0>>,
                     <<-100, 300>>, <<-5, -5>> },
             z \in { <<780, 600>>, <<0, 0>>, <<780, 0>> } }

---------------------------------------------------------------------------
(* The geometry feed: json_int, find_block_end, titles_match *)

\* the longest text find_block_end is called on
MaxText == 5

\* the byte at index i (from 1) of a C string: its terminator behind the text
At(str, i) == IF i <= Len(str) THEN str[i] ELSE 0

\* strstr(j, pat): the index of the first occurrence, 0 for NULL
StrStr(j, pat) ==
    LET occ == { i \in 1..(Len(j) - Len(pat) + 1) : SubSeq(j, i, i + Len(pat) - 1) = pat }
    IN  IF occ = {} THEN 0 ELSE CHOOSE i \in occ : \A k \in occ : i <= k

RECURSIVE SkipBlanks(_, _)
\* while (*p == ' ' || *p == '\t') p++;
SkipBlanks(j, p) ==
    IF At(j, p) = 32 \/ At(j, p) = 9 THEN SkipBlanks(j, p + 1) ELSE p

RECURSIVE SkipSpace(_, _)
\* atoi first skips what isspace accepts
SkipSpace(j, p) ==
    IF At(j, p) = 32 \/ At(j, p) \in 9..13 THEN SkipSpace(j, p + 1) ELSE p

RECURSIVE Digits(_, _, _)
\* atoi takes decimal digits as long as there are any
Digits(j, p, acc) ==
    IF At(j, p) \in 48..57 THEN Digits(j, p + 1, acc * 10 + (At(j, p) - 48)) ELSE acc

\* atoi(p): blanks, an optional sign, digits; 0 when no digit is there
atoi(j, p) ==
    LET q == SkipSpace(j, p)
    IN  IF At(j, q) = 45 THEN -Digits(j, q + 1, 0)
        ELSE IF At(j, q) = 43 THEN Digits(j, q + 1, 0)
        ELSE Digits(j, q, 0)

\* "\"%s\":" of the key
Pattern(key) == << 34 >> \o key \o << 34, 58 >>

json_int(j, key, def) ==
    LET pat == Pattern(key)
        p   == StrStr(j, pat)
    IN  IF p = 0 THEN def
        ELSE atoi(j, SkipBlanks(j, p + Len(pat)))

RECURSIVE BlockScan(_, _, _, _, _)
\* the loop of find_block_end over the memory at p, which holds the text of
\* `len` bytes, its terminator, and whatever lies behind it: the position of
\* the closing brace (0 for NULL, -1 when the read leaves the memory mapped),
\* and whether a byte behind the terminator was read
BlockScan(mem, len, p, depth, in_str) ==
    IF p > Len(mem) THEN [out |-> -1, oob |-> TRUE]
    ELSE IF mem[p] = 0 THEN [out |-> 0, oob |-> p > len + 1]
    ELSE IF mem[p] = 92 /\ in_str THEN BlockScan(mem, len, p + 2, depth, in_str)
    ELSE IF mem[p] = 34 THEN BlockScan(mem, len, p + 1, depth, ~in_str)
    ELSE IF in_str THEN BlockScan(mem, len, p + 1, depth, in_str)
    ELSE IF mem[p] = 123 THEN BlockScan(mem, len, p + 1, depth + 1, in_str)
    ELSE IF mem[p] = 125
    THEN IF depth - 1 = 0 THEN [out |-> p, oob |-> p > len + 1]
         ELSE BlockScan(mem, len, p + 1, depth - 1, in_str)
    ELSE BlockScan(mem, len, p + 1, depth, in_str)

\* find_block_end(p) with the bytes `beyond` behind the text's terminator
find_block_end(text, beyond) ==
    BlockScan(text \o << 0 >> \o beyond, Len(text), 1, 0, FALSE)

\* what may lie behind the terminator of the text: unmapped memory, another
\* terminator, a closing brace, a quote and a closing brace
Beyonds == { << >>, << 0 >>, << 125, 0 >>, << 34, 125, 0 >> }

RECURSIVE TextsOf(_)
\* the texts of k bytes out of { } " \ a that start with an opening brace
TextsOf(k) ==
    IF k = 1 THEN { << 123 >> }
    ELSE { Append(t, c) : t \in TextsOf(k - 1), c \in {123, 125, 34, 92, 97} }

Texts == UNION { TextsOf(k) : k \in 1..MaxText }

\* "pid", "at"
KeyPid == << 112, 105, 100 >>

KeyAt == << 97, 116 >>

\* the values a field of a client record is given: 42, -7, +3, 0, and what is
\* no integer: null, "12", x7, nothing
IntValues == { << 52, 50 >>, << 45, 55 >>, << 43, 51 >>, << 48 >> }

NoIntValues ==
    { << 110, 117, 108, 108 >>, << 34, 49, 50, 34 >>, << 120, 55 >>, << >> }

\* {"<key>": <value>}
Field(key, value) == << 123 >> \o Pattern(key) \o << 32 >> \o value \o << 125 >>

\* the records json_int is called on: one field with each value, and records
\* without the field: {}, nothing, {"spid": 42}, {"pid" : 42}
Records ==
    { Field(key, value) : key \in {KeyPid, KeyAt}, value \in IntValues \cup NoIntValues }
    \cup { << 123, 125 >>, << >>,
           << 123, 34, 115, 112, 105, 100, 34, 58, 32, 52, 50, 125 >>,
           << 123, 34, 112, 105, 100, 34, 32, 58, 32, 52, 50, 125 >> }

\* the defaults json_int is called with
Defaults == { -1, 0, 7 }

\* the longest title head of the titles compared
MaxTitleRun == 21

\* strstr(h, n) != NULL
Contains(h, n) ==
    \E i \in 1..(Len(h) - Len(n) + 1) : SubSeq(h, i, i + Len(n) - 1) = n

\* strncmp(a, b, n) == 0, for n within both strings
SameHead(a, b, n) == \A i \in 1..n : a[i] = b[i]

RECURSIVE CommonRun(_, _, _)
\* while (common < la && common < lb && a[common] == b[common]) common++;
CommonRun(a, b, common) ==
    IF common < Len(a) /\ common < Len(b) /\ a[common + 1] = b[common + 1]
    THEN CommonRun(a, b, common + 1)
    ELSE common

\* (a wrong first rule: a title is only looked for at the start of the other)
titles_match_at_start(a, b) ==
    IF a = << >> \/ b = << >> THEN FALSE
    ELSE IF Len(b) <= Len(a) /\ SameHead(a, b, Len(b)) THEN TRUE
    ELSE IF Len(a) <= Len(b) /\ SameHead(a, b, Len(a)) THEN TRUE
    ELSE LET min == IF Len(a) < Len(b) THEN Len(a) ELSE Len(b)
         IN  IF min > 10 /\ SameHead(a, b, min) THEN TRUE
             ELSE CommonRun(a, b, 0) >= 20

titles_match(a, b) ==
    IF a = << >> \/ b = << >> THEN FALSE
    ELSE IF Contains(a, b) \/ Contains(b, a) THEN TRUE
    ELSE LET min == IF Len(a) < Len(b) THEN Len(a) ELSE Len(b)
         IN  IF min > 10 /\ SameHead(a, b, min) THEN TRUE
             ELSE CommonRun(a, b, 0) >= 20

\* the first k bytes of "bcdefghijklmnopqrstuvwxyzab..."
TitleHead(k) == [i \in 1..k |-> 97 + (i % 26)]

\* "Inbox \xe2\x80\x94 Mail" (the dash is three bytes of UTF-8)
InboxMail == << 73, 110, 98, 111, 120, 32, 226, 128, 148, 32, 77, 97, 105, 108 >>

\* "Inbox \xe2\x80\x94 Mail \xe2\x80\x94 3 unread"
InboxMailUnread ==
    InboxMail \o << 32, 226, 128, 148, 32, 51, 32, 117, 110, 114, 101, 97, 100 >>

\* "example.com/page"
ExamplePage ==
    << 101, 120, 97, 109, 112, 108, 101, 46, 99, 111, 109, 47, 112, 97, 103, 101 >>

\* "example.com/page?x=1"
ExamplePageQuery == ExamplePage \o << 63, 120, 61, 49 >>

\* the titles compared: every head of up to MaxTitleRun bytes followed by
\* nothing, "1", "2" or "12", and the four titles above
Titles ==
    { TitleHead(k) \o tail :
        k \in 0..MaxTitleRun, tail \in { << >>, << 49 >>, << 50 >>, << 49, 50 >> } }
    \cup { InboxMail, InboxMailUnread, ExamplePage, ExamplePageQuery }

---------------------------------------------------------------------------
(* The hint overlay: on_key, on_shutdown *)

Lower == 97..122

Upper == 65..90

\* gdk_keyval_name for the two keys on_key asks about
KeyName(keyval) ==
    IF keyval = 65307 THEN "Escape"
    ELSE IF keyval = 65288 THEN "BackSpace"
    ELSE "other"

\* the keys delivered to the overlay: every lowercase letter, two uppercase
\* letters, a digit, a punctuation mark, Return, Escape and BackSpace
Keyvals == Lower \cup {65, 66, 49, 59, 65293, 65307, 65288}

\* modifier masks, as the set of the modifiers held
Mods == {{}, {"shift"}, {"control"}, {"shift", "control"}}

\* (a wrong key test: uppercase letters are not taken)
KeyCharLowerOnly(keyval) == IF keyval \in Lower THEN keyval ELSE 0

\* char ch = 0; lowercase kept, uppercase folded (keyval + 32)
KeyChar(keyval) ==
    IF keyval \in Lower THEN keyval
    ELSE IF keyval \in Upper THEN keyval + 32
    ELSE 0

\* the targets whose label equals s: strcmp(label, typed) == 0
ExactMatches(t, s) == {i \in 1..Len(t) : t[i].label = s}

\* (a wrong continuation test: only the first letter is compared)
PrefixMatchesFirstLetter(t, s) ==
    {i \in 1..Len(t) : s # << >> => t[i].label[1] = s[1]}

\* (a wrong continuation test: only whole labels count)
PrefixMatchesExact(t, s) == {i \in 1..Len(t) : t[i].label = s}

\* the targets whose label starts with s: strncmp(label, typed, typed_len) == 0
PrefixMatches(t, s) == {i \in 1..Len(t) : IsPrefix(s, t[i].label)}

ButtonOf(mod) ==
    IF "shift" \in mod THEN "BTN_RIGHT"
    ELSE IF "control" \in mod THEN "BTN_MIDDLE"
    ELSE "BTN_LEFT"

\* (a wrong click point: where the label is drawn)
ClickPointOfLabel(t, mi) == << t[mi].lx, t[mi].ly >>

\* click_x, click_y of the selected target
ClickPoint(t, mi) == << t[mi].cx, t[mi].cy >>

\* an entry of trace: a call the session made
Call(name) == [call |-> name, x |-> 0, y |-> 0, button |-> "none"]

\* (a wrong shutdown: the click is issued whether or not a target was selected)
ShutdownCallsAlways(sc, x, y, button) ==
    << Call("usleep"), [call |-> "do_click", x |-> x, y |-> y, button |-> button] >>

\* on_shutdown: if (should_click) { usleep(150000); do_click(...); }
ShutdownCalls(sc, x, y, button) ==
    IF sc
    THEN << Call("usleep"),
            [call |-> "do_click", x |-> x, y |-> y, button |-> button] >>
    ELSE << >>

\* the layout of the targets the session starts from: a grid of 30x20 elements,
\* 40 apart, already normalised with offset zero
SessionTarget(i) ==
    OffsetTarget(RawTarget(40 * (i % 32), 30 * (i \div 32), 30, 20), 0, 0)

SessionTargets(n) == [i \in 1..n |-> SessionTarget(i - 1)]

NoEvent == [keyval |-> 0, mod |-> {}]

NoNode ==
    [x |-> 0, y |-> 0, n |-> 0, depth |-> 0, outcome |-> "none",
     role_err |-> FALSE, ss |-> NoStateSet, nc |-> 0]

NoGroup == [strategy |-> "none", count |-> 0, geom |-> Geom(FALSE, 0, 0, 0, 0)]

\* a call of a helper of the geometry lookup: its name, its text arguments a
\* and b, its integer argument, the memory behind the text, and once it is
\* done the value returned and whether it read beyond the text
FeedCall(fn, a, b, def) ==
    [fn |-> fn, a |-> a, b |-> b, def |-> def, beyond |-> << >>,
     done |-> FALSE, out |-> 0, oob |-> FALSE]

NoFeed == FeedCall("none", << >>, << >>, 0)

SessionInit ==
    /\ typed = << >>
    /\ should_click = FALSE
    /\ click_x = 0
    /\ click_y = 0
    /\ click_button = "none"
    /\ ev = NoEvent
    /\ trace = << >>

CollectIdle ==
    /\ start = 0
    /\ stack = << >>
    /\ visited = 0
    /\ wins = 0
    /\ node = NoNode
    /\ group = NoGroup
    /\ feed = NoFeed

\* main after collect_all_targets returned n targets
Init ==
    /\ pc = "main"
    /\ n_targets \in 0..MaxSessionTargets
    /\ targets = SessionTargets(n_targets)
    /\ SessionInit
    /\ CollectIdle

\* main: no target, no session; else generate_labels, and on_activate presents
\* the overlay
Main ==
    /\ pc = "main"
    /\ IF n_targets = 0
       THEN /\ pc' = "exit"
            /\ UNCHANGED targets
       ELSE /\ targets' = generate_labels(targets, n_targets)
            /\ pc' = "typing"
    /\ UNCHANGED <<n_targets, sessionVars, collectVars>>

on_key(keyval, mod) ==
    /\ pc = "typing"
    /\ ev' = [keyval |-> keyval, mod |-> mod]
    /\ IF KeyName(keyval) = "Escape"
       THEN /\ should_click' = FALSE
            /\ trace' = Append(trace, Call("application_quit"))
            /\ pc' = "quit"
            /\ UNCHANGED <<typed, click_x, click_y, click_button>>
       ELSE IF KeyName(keyval) = "BackSpace"
       THEN /\ typed' = IF Len(typed) > 0
                        THEN SubSeq(typed, 1, Len(typed) - 1)
                        ELSE typed
            /\ UNCHANGED <<pc, should_click, click_x, click_y, click_button, trace>>
       ELSE IF KeyChar(keyval) = 0 \/ Len(typed) >= MAX_TYPED
       THEN UNCHANGED <<pc, typed, should_click, click_x, click_y,
                        click_button, trace>>
       ELSE LET t2 == Append(typed, KeyChar(keyval))
                m  == ExactMatches(targets, t2)
            IN  IF Cardinality(m) = 1
                THEN /\ typed' = t2
                     /\ should_click' = TRUE
                     /\ click_x' = ClickPoint(targets, SetMax(m))[1]
                     /\ click_y' = ClickPoint(targets, SetMax(m))[2]
                     /\ click_button' = ButtonOf(mod)
                     /\ trace' = Append(trace, Call("window_destroy"))
                     /\ pc' = "destroyed"
                ELSE /\ typed' = IF PrefixMatches(targets, t2) = {}
                                 THEN << >>
                                 ELSE t2
                     /\ UNCHANGED <<pc, should_click, click_x, click_y,
                                    click_button, trace>>
    /\ UNCHANGED <<targets, n_targets, collectVars>>

\* the application shuts down once it was quit or its only window was destroyed
on_shutdown ==
    /\ pc \in {"quit", "destroyed"}
    /\ trace' = trace \o ShutdownCalls(should_click, click_x, click_y, click_button)
    /\ pc' = "exit"
    /\ UNCHANGED <<targets, n_targets, typed, should_click, click_x, click_y,
                   click_button, ev, collectVars>>

Next ==
    \/ Main
    \/ \E keyval \in Keyvals, mod \in Mods : on_key(keyval, mod)
    \/ on_shutdown

Spec == Init /\ [][Next]_vars

\* generate_labels for every target count the array can hold
InitLabels ==
    /\ pc = "main"
    /\ n_targets \in 1..MAX_TARGETS
    /\ targets = SessionTargets(n_targets)
    /\ SessionInit
    /\ CollectIdle

SpecLabels == InitLabels /\ [][Main]_vars

\* the overlay session at the target counts where the label width changes,
\* and at the most targets there can be
WideCounts == {1, 26, 27, 676, 677, MAX_TARGETS}

\* the keys delivered to it: a, b, z, A, 1, BackSpace and Escape, alone or
\* with shift
WideKeyvals == {97, 98, 122, 65, 49, 65288, 65307}

WideMods == {{}, {"shift"}}

InitWide ==
    /\ pc = "main"
    /\ n_targets \in WideCounts
    /\ targets = SessionTargets(n_targets)
    /\ SessionInit
    /\ CollectIdle

NextWide ==
    \/ Main
    \/ \E keyval \in WideKeyvals, mod \in WideMods : on_key(keyval, mod)
    \/ on_shutdown

SpecWide == InitWide /\ [][NextWide]_vars

---------------------------------------------------------------------------
(* collect_all_targets *)

\* collect_all_targets is entered with an empty target list
InitCollect ==
    /\ pc = "windows"
    /\ targets = << >>
    /\ n_targets = 0
    /\ SessionInit
    /\ CollectIdle

\* the window loop: the next window's targets start at n_targets, and walk is
\* called on the window at depth 0
StartWindow(maxWindows, maxNodes) ==
    /\ pc = "windows"
    /\ wins < maxWindows
    /\ visited < maxNodes
    /\ n_targets < MAX_TARGETS
    /\ start' = n_targets
    /\ stack' = << 1 >>
    /\ node' = NoNode
    /\ pc' = "walk"
    /\ UNCHANGED <<targets, n_targets, sessionVars, visited, wins, group, feed>>

RECURSIVE Sum(_)
Sum(st) == IF st = << >> THEN 0 ELSE st[1] + Sum(Tail(st))

\* walk on the next node: the child the innermost child loop is at
WalkNode(nd, maxNodes, maxDepth) ==
    /\ pc = "walk"
    /\ stack # << >>
    /\ nd.nc > 0 => Len(stack) - 1 < maxDepth
    /\ visited + Sum(stack) + nd.nc <= maxNodes
    /\ LET depth == Len(stack) - 1
           oc    == Outcome(nd, targets, n_targets, depth)
           out   == IF oc = "collected"
                    THEN Append(targets,
                                RawTarget(nd.rect.x, nd.rect.y, nd.rect.w, nd.rect.h))
                    ELSE targets
           rest  == [stack EXCEPT ![Len(stack)] = @ - 1]
           down  == IF oc \in {"returned", "hidden"} \/ nd.nc = 0
                    THEN rest
                    ELSE Append(rest, nd.nc)
       IN  /\ targets' = out
           /\ n_targets' = Len(out)
           /\ stack' = Unwind(down, Len(out))
           /\ node' = [x |-> nd.rect.x, y |-> nd.rect.y, n |-> n_targets,
                       depth |-> depth, outcome |-> oc,
                       role_err |-> nd.role_err, ss |-> nd.ss, nc |-> nd.nc]
    /\ visited' = visited + 1
    /\ UNCHANGED <<pc, sessionVars, start, wins, group, feed>>

\* walk returned: the window's group is normalised with the geometry resolved
\* for the window
FinishWindow(g) ==
    /\ pc = "walk"
    /\ stack = << >>
    /\ targets' = Normalize(targets, start, g)
    /\ n_targets' = Len(targets')
    /\ group' = [strategy |-> Strategy(targets, start, g),
                 count |-> n_targets - start, geom |-> g]
    /\ wins' = wins + 1
    /\ pc' = "windows"
    /\ UNCHANGED <<sessionVars, start, stack, visited, node, feed>>

\* no window is left: collect_all_targets returns to main
Return ==
    /\ pc = "windows"
    /\ pc' = "main"
    /\ UNCHANGED <<targets, n_targets, sessionVars, collectVars>>

\* the geometry resolved for the windows walked: none, a window at (500,300),
\* a window of size 0
WalkGeoms ==
    { Geom(FALSE, 0, 0, 0, 0), Geom(TRUE, 500, 300, 780, 600),
      Geom(TRUE, 500, 300, 0, 0) }

\* the window loop over small trees
NextCollect ==
    \/ StartWindow(MaxWindows, MaxWindowNodes)
    \/ \E nd \in Nodes(n_targets, CollectExtents(n_targets)) :
          WalkNode(nd, MaxWindowNodes, MaxDepth)
    \/ \E g \in WalkGeoms : FinishWindow(g)
    \/ Return

SpecCollect == InitCollect /\ [][NextCollect]_vars

\* one window with a tree large enough to fill the duplicate window
NextWalk ==
    \/ StartWindow(1, MaxNodes)
    \/ \E nd \in Nodes(n_targets, WalkExtents(n_targets)) :
          WalkNode(nd, MaxNodes, MaxDepth)
    \/ \E g \in WalkGeoms : FinishWindow(g)
    \/ Return

SpecWalk == InitCollect /\ [][NextWalk]_vars

\* the extents offered for a node of the pipeline: a fresh position, the
\* origin, and a position 4 on both axes from the origin
PipeExtents(n) == { Fresh(n), Rect(0, 0, 30, 20), Rect(4, 4, 30, 20) }

\* the nodes of its windows: clickable, visible elements nested in one another
PipeNodes(n) == { ClickableNode(r, nc) : r \in PipeExtents(n), nc \in 0..1 }

\* the geometry resolved for its windows: none, or a window at (500,300)
PipeGeoms == { Geom(FALSE, 0, 0, 0, 0), Geom(TRUE, 500, 300, 780, 600) }

\* collector and normaliser together, window after window
NextPipe ==
    \/ StartWindow(MaxPipeWindows, MaxPipeNodes)
    \/ \E nd \in PipeNodes(n_targets) : WalkNode(nd, MaxPipeNodes, MaxPipeNodes)
    \/ \E g \in PipeGeoms : FinishWindow(g)
    \/ Return

SpecPipe == InitCollect /\ [][NextPipe]_vars

\* the nodes of a deep window: clickable, visible elements at fresh positions,
\* several below the root and from there on nested in one another
DeepNodes(n, depth) ==
    { ClickableNode(Fresh(n), nc) : nc \in 0..(IF depth = 0 THEN MaxDeepKids ELSE 1) }

\* collect_all_targets at the window loop, the windows before having left no
\* target or all but a few of the MAX_TARGETS
InitDeep ==
    /\ pc = "windows"
    /\ n_targets \in {0} \cup ((MAX_TARGETS - MaxRoom)..(MAX_TARGETS - 1))
    /\ targets = SessionTargets(n_targets)
    /\ start = 0
    /\ stack = << >>
    /\ visited = 0
    /\ wins = MaxWindows - 1
    /\ node = NoNode
    /\ group = NoGroup
    /\ feed = NoFeed
    /\ SessionInit

\* the window loop over deep trees
NextDeep ==
    \/ StartWindow(MaxWindows, MaxDeepNodes)
    \/ \E nd \in DeepNodes(n_targets, Len(stack) - 1) :
          WalkNode(nd, MaxDeepNodes, MaxDeepDepth)
    \/ \E g \in WalkGeoms : FinishWindow(g)
    \/ Return

SpecDeep == InitDeep /\ [][NextDeep]_vars

\* The normalisation of one group, for every group of up to MaxGroup targets
\* made of targets at the origin, inside the window, with their origin inside
\* and their rectangle reaching outside, and outside; after no earlier group
\* or after one of two targets.
Repeat(r, k) == [i \in 1..k |-> RawTarget(r.x, r.y, r.w, r.h)]

Groups ==
    { Repeat(Rect(0, 0, 30, 20), c[1]) \o Repeat(Rect(100, 100, 30, 20), c[2])
        \o Repeat(Rect(770, 590, 30, 20), c[3]) \o Repeat(Rect(900, 700, 30, 20), c[4])
      : c \in { d \in (0..MaxGroup) \X (0..MaxGroup) \X (0..MaxGroup) \X (0..MaxGroup) :
                  d[1] + d[2] + d[3] + d[4] <= MaxGroup } }

Earlier ==
    { << >>,
      << OffsetTarget(RawTarget(300, 300, 30, 20), 0, 0),
         OffsetTarget(RawTarget(0, 0, 30, 20), 500, 300) >> }

\* collect_all_targets at line 388: walk has returned with the window's group
InitNorm ==
    /\ pc = "walk"
    /\ \E e \in Earlier, gr \in Groups :
          /\ targets = e \o gr
          /\ start = Len(e)
    /\ n_targets = Len(targets)
    /\ stack = << >>
    /\ visited = 0
    /\ wins = 0
    /\ node = NoNode
    /\ group = NoGroup
    /\ feed = NoFeed
    /\ SessionInit

NextNorm == \E g \in Geoms : FinishWindow(g)

SpecNorm == InitNorm /\ [][NextNorm]_vars

---------------------------------------------------------------------------
(* The helpers of the geometry lookup, each called on its own *)

\* the calls made: titles_match on every pair of titles, json_int on every
\* record for both keys and every default, find_block_end on every text
FeedCalls ==
    { FeedCall("titles_match", a, b, 0) : a \in Titles, b \in Titles }
    \cup { FeedCall("json_int", j, key, def) :
             j \in Records, key \in {KeyPid, KeyAt}, def \in Defaults }
    \cup { FeedCall("find_block_end", text, << >>, 0) : text \in Texts }

InitFeed ==
    /\ pc = "feed"
    /\ feed \in FeedCalls
    /\ targets = << >>
    /\ n_targets = 0
    /\ start = 0
    /\ stack = << >>
    /\ visited = 0
    /\ wins = 0
    /\ node = NoNode
    /\ group = NoGroup
    /\ SessionInit

\* find_client_geom_by_title, line 271: the title of a client record against
\* the window's name
CallTitlesMatch ==
    /\ pc = "feed"
    /\ feed.fn = "titles_match"
    /\ ~feed.done
    /\ feed' = [feed EXCEPT !.done = TRUE,
                            !.out = IF titles_match(feed.a, feed.b) THEN 1 ELSE 0]
    /\ UNCHANGED <<pc, targets, n_targets, sessionVars, start, stack, visited,
                   wins, node, group>>

\* find_client_geom, line 220: the pid of a client record
CallJsonInt ==
    /\ pc = "feed"
    /\ feed.fn = "json_int"
    /\ ~feed.done
    /\ feed' = [feed EXCEPT !.done = TRUE,
                            !.out = json_int(feed.a, feed.b, feed.def)]
    /\ UNCHANGED <<pc, targets, n_targets, sessionVars, start, stack, visited,
                   wins, node, group>>

\* find_client_geom, line 212: the end of the record that starts at p.  A
\* read behind the terminator finds whatever the memory holds there.
CallFindBlockEnd ==
    /\ pc = "feed"
    /\ feed.fn = "find_block_end"
    /\ ~feed.done
    /\ \E beyond \in Beyonds :
          LET r == find_block_end(feed.a, beyond)
          IN  feed' = [feed EXCEPT !.done = TRUE, !.out = r.out, !.oob = r.oob,
                                  !.beyond = IF r.oob THEN beyond ELSE << >>]
    /\ UNCHANGED <<pc, targets, n_targets, sessionVars, start, stack, visited,
                   wins, node, group>>

NextFeed ==
    \/ CallTitlesMatch
    \/ CallJsonInt
    \/ CallFindBlockEnd

SpecFeed == InitFeed /\ [][NextFeed]_vars

---------------------------------------------------------------------------
(* Properties of the overlay session (Spec) *)

\* the candidate a lowercase key makes of the typed prefix
Candidate == Append(typed, ev'.keyval)

LabelIs(i, s) == targets[i].label = s

LabelStartsWith(i, s) ==
    /\ Len(targets[i].label) >= Len(s)
    /\ SubSeq(targets[i].label, 1, Len(s)) = s

ClickCalls == {k \in 1..Len(trace) : trace[k].call = "do_click"}

\* C1: a lowercase key that completes exactly one target's label selects that
\* target: the overlay is destroyed, and the point stored for the click, and
\* the point do_click is called with, is that target's cx, cy.
C1_UniqueMatchSelected ==
    /\ [][\A i \in 1..Len(targets) :
            ( /\ pc = "typing"
              /\ ev'.keyval \in Lower
              /\ LabelIs(i, Candidate)
              /\ \A j \in 1..Len(targets) : LabelIs(j, Candidate) => j = i )
            => ( /\ pc' = "destroyed"
                 /\ should_click'
                 /\ typed' = targets[i].label
                 /\ click_x' = targets[i].cx
                 /\ click_y' = targets[i].cy )]_vars
    /\ [](\A k \in ClickCalls : \A i \in 1..Len(targets) :
            LabelIs(i, typed) => trace[k].x = targets[i].cx
                                 /\ trace[k].y = targets[i].cy)

C1_Witness ==
    /\ pc = "exit"
    /\ n_targets > 26
    /\ ClickCalls # {}
    /\ typed = << 97, 99 >>

\* C2: a lowercase key after which no label starts with the candidate empties
\* the typed prefix; one after which some label starts with the candidate and
\* none equals it makes the candidate the typed prefix.  Both keep the session
\* typing.
C2_ResetOrExtend ==
    [][( /\ pc = "typing"
         /\ ev'.keyval \in Lower
         /\ \A i \in 1..Len(targets) : ~LabelIs(i, Candidate) )
       => ( /\ pc' = "typing"
            /\ ~should_click'
            /\ typed' = IF \E i \in 1..Len(targets) : LabelStartsWith(i, Candidate)
                         THEN Candidate
                         ELSE << >> )]_vars

\* with 27 targets no label starts with z: the key emptied the prefix
C2_Witness ==
    /\ pc = "typing"
    /\ typed = << >>
    /\ ev.keyval = 122
    /\ n_targets = 27

\* C3: do_click is called at most once, and only as the third call after the
\* overlay window was destroyed and the settle delay slept; a session that
\* Escape ended never calls it.
C3_ClickOnceAfterTeardown ==
    /\ Cardinality(ClickCalls) <= 1
    /\ \A k \in ClickCalls :
          /\ k = 3
          /\ trace[1].call = "window_destroy"
          /\ trace[2].call = "usleep"
          /\ should_click
    /\ (\E k \in 1..Len(trace) : trace[k].call = "application_quit")
          => ClickCalls = {}
    /\ (pc = "exit" /\ should_click) => ClickCalls # {}

C3_Witness ==
    /\ pc = "exit"
    /\ trace # << >>
    /\ trace[Len(trace)].call = "do_click"

\* the session is typing and the step handles a key
KeyStep == pc = "typing" /\ pc' # "main"

\* the step left the typed prefix and the outcome of the session as they were
KeyIgnored ==
    /\ pc' = "typing"
    /\ typed' = typed
    /\ should_click' = should_click
    /\ click_x' = click_x
    /\ click_y' = click_y
    /\ click_button' = click_button
    /\ trace' = trace

\* the step did with the letter c what C1 and C2 say of a character
KeyTaken(c) ==
    LET cand == Append(typed, c)
    IN  IF \E i \in 1..Len(targets) : LabelIs(i, cand)
        THEN pc' = "destroyed" /\ should_click' /\ typed' = cand
        ELSE /\ pc' = "typing"
             /\ typed' = IF \E i \in 1..Len(targets) : LabelStartsWith(i, cand)
                          THEN cand
                          ELSE << >>

\* C14 (as amended): letters are the only characters taken, a lowercase
\* letter as it is and an uppercase letter as its lowercase; a key that is not
\* Escape, BackSpace or a letter (a digit, punctuation, Return) leaves the
\* typed prefix and the outcome of the session unchanged.
C14_LettersOnlyUppercaseFolded ==
    [][KeyStep =>
          /\ ev'.keyval \notin (Lower \cup Upper \cup {65307, 65288}) => KeyIgnored
          /\ ev'.keyval \in Lower => KeyTaken(ev'.keyval)
          /\ ev'.keyval \in Upper => KeyTaken(ev'.keyval + 32)]_vars

\* of 28 targets the one labelled "ab" was selected by A and then shift-B
C14_Witness ==
    /\ pc = "destroyed"
    /\ n_targets = 28
    /\ typed = << 97, 98 >>
    /\ ev = [keyval |-> 66, mod |-> {"shift"}]
    /\ click_button = "BTN_RIGHT"

\* C14 as stated: a key that is not Escape, BackSpace or a lowercase letter
\* leaves the typed prefix and the outcome of the session unchanged.
C14_Original ==
    [][(KeyStep /\ ev'.keyval \notin (Lower \cup {65307, 65288}))
          => KeyIgnored]_vars

\* the typed prefix is the start of the i-th label and shorter than it
ProperPrefixOf(i) ==
    /\ Len(typed) < Len(targets[i].label)
    /\ \A k \in 1..Len(typed) : typed[k] = targets[i].label[k]

\* C17: while the session is typing, the typed prefix is a proper prefix of
\* some label, so it is shorter than the common label width, at most 2 long
\* and never MAX_TYPED long; and a letter that keeps it the start of a label
\* is taken, selecting the target whose label it completes.
C17_TypedIsProperPrefix ==
    /\ [](pc = "typing" =>
            /\ \E i \in 1..Len(targets) : ProperPrefixOf(i)
            /\ \A i \in 1..Len(targets) : Len(typed) < Len(targets[i].label)
            /\ Len(typed) <= 2
            /\ Len(typed) < MAX_TYPED)
    /\ [][\A i \in 1..Len(targets) :
            (KeyStep /\ ev'.keyval \in Lower /\ LabelStartsWith(i, Candidate))
            => /\ typed' = Candidate
               /\ LabelIs(i, Candidate) =>
                     (pc' = "destroyed" /\ click_x' = targets[i].cx
                                       /\ click_y' = targets[i].cy)
               /\ ~LabelIs(i, Candidate) => pc' = "typing"]_vars

\* with 677 targets the labels are three letters wide: the prefix "az" is
\* typed, the start of the labels "aza" to "azz"
C17_Witness ==
    /\ pc = "typing"
    /\ n_targets = 677
    /\ typed = << 97, 122 >>
    /\ ev.keyval = 122
    /\ Len(targets[1].label) = 3

---------------------------------------------------------------------------
(* Properties of the normalisation of one group (SpecNorm) *)

\* walk has returned and the window's group is about to be normalised
AtNormalise == pc = "walk" /\ stack = << >>

Group == (start + 1)..Len(targets)

GroupCount == Len(targets) - start

GroupZeros == Cardinality({k \in Group : targets[k].x = 0 /\ targets[k].y = 0})

\* the targets of the group whose raw origin lies in [0,ww) x [0,wh)
OriginInside(ww, wh) ==
    Cardinality({k \in Group : /\ 0 <= targets[k].x /\ targets[k].x < ww
                               /\ 0 <= targets[k].y /\ targets[k].y < wh})

\* the targets of the group whose raw bounds lie entirely in [0,ww) x [0,wh)
BoundsInside(ww, wh) ==
    Cardinality({k \in Group : /\ 0 <= targets[k].x
                               /\ targets[k].x + targets[k].w <= ww
                               /\ 0 <= targets[k].y
                               /\ targets[k].y + targets[k].h <= wh})

\* the geometry the step resolved for the window
Resolved == group'.geom

PositiveSize == Resolved.found /\ Resolved.ww > 0 /\ Resolved.wh > 0

\* the step kept the group and gave every target of it the ordinary points
\* raw_origin + off + raw_size/2 and raw_origin + off + (16, 8)
OffsetApplied(off_x, off_y) ==
    /\ Len(targets') = Len(targets)
    /\ \A k \in Group :
          /\ targets'[k].cx = targets[k].x + off_x + (targets[k].w \div 2)
          /\ targets'[k].cy = targets[k].y + off_y + (targets[k].h \div 2)
          /\ targets'[k].lx = targets[k].x + off_x + 16
          /\ targets'[k].ly = targets[k].y + off_y + 8

\* the step kept the group and put every target of it on a grid point inside
\* the window's rectangle inset by 30, click and anchor point being the same
GridApplied ==
    /\ Len(targets') = Len(targets)
    /\ \A k \in Group :
          /\ targets'[k].cx = targets'[k].lx
          /\ targets'[k].cy = targets'[k].ly
          /\ Resolved.wx + 30 <= targets'[k].cx
          /\ targets'[k].cx <= Resolved.wx + Resolved.ww - 30
          /\ Resolved.wy + 30 <= targets'[k].cy
          /\ targets'[k].cy <= Resolved.wy + Resolved.wh - 30

GroupRemoved == Len(targets') = start

\* C6: the group takes the broken-coordinate branch (the grid when the window
\* geometry is resolved with positive size, else removal) exactly if
\* zeros/count >= 80%; otherwise every target gets the ordinary computation
\* with offset zero or the window origin.  So 8 of 10 at (0,0) take it and 7 of
\* 10 do not.
C6_BrokenIffEightyPercentZero ==
    [][(AtNormalise /\ GroupCount > 0) =>
          IF 5 * GroupZeros >= 4 * GroupCount
          THEN /\ group'.strategy \in {"grid", "dropped"}
               /\ IF PositiveSize THEN GridApplied ELSE GroupRemoved
          ELSE /\ group'.strategy \in {"offset", "absolute"}
               /\ \/ OffsetApplied(0, 0)
                  \/ OffsetApplied(Resolved.wx, Resolved.wy)]_vars

C6_Witness ==
    /\ pc = "windows"
    /\ group.count = 10
    /\ group.strategy = "grid"
    /\ Len(targets) = start + 10
    /\ Cardinality({k \in Group : targets[k].x = 0 /\ targets[k].y = 0}) = 8

\* the group is not broken, its window resolved with positive size and an
\* origin with no negative coordinate other than (0,0)
C7_Case ==
    /\ AtNormalise
    /\ GroupCount > 0
    /\ ~(5 * GroupZeros >= 4 * GroupCount)
    /\ PositiveSize
    /\ Resolved.wx >= 0
    /\ Resolved.wy >= 0
    /\ ~(Resolved.wx = 0 /\ Resolved.wy = 0)

\* C7 (as amended): in that case the window origin is added to the click and
\* anchor points of every target of the group exactly if at least 80% of the
\* group's targets have their raw origin (x, y) in [0,width) x [0,height);
\* otherwise the offset is zero for every target.
C7_OffsetIffOriginsInside ==
    [][C7_Case =>
          IF 5 * OriginInside(Resolved.ww, Resolved.wh) >= 4 * GroupCount
          THEN OffsetApplied(Resolved.wx, Resolved.wy)
          ELSE OffsetApplied(0, 0)]_vars

\* 9 of 10 origins inside, one of them with bounds reaching outside: offset applied
C7_Witness ==
    /\ pc = "windows"
    /\ group.count = 10
    /\ group.strategy = "offset"
    /\ group.geom = Geom(TRUE, 500, 300, 780, 600)
    /\ Cardinality({k \in Group : targets[k].x < 780 /\ targets[k].y < 600}) = 9
    /\ \E k \in Group : targets[k].x < 780 /\ targets[k].x + targets[k].w > 780
    /\ \A k \in Group : targets[k].cx = targets[k].x + 500 + 15

\* C7 as stated: the offset is applied exactly if at least 80% of the raw
\* bounds lie entirely inside the window's size.
C7_Original ==
    [][C7_Case =>
          IF 5 * BoundsInside(Resolved.ww, Resolved.wh) >= 4 * GroupCount
          THEN OffsetApplied(Resolved.wx, Resolved.wy)
          ELSE OffsetApplied(0, 0)]_vars

\* C8 as stated: for a non-broken group whose window is resolved with
\* positive size and an origin other than (0,0), of whatever sign, the origin
\* is added as offset whenever at least 80% of the targets lie inside the
\* window's size.
C8_Original ==
    [][( /\ AtNormalise
         /\ GroupCount > 0
         /\ ~(5 * GroupZeros >= 4 * GroupCount)
         /\ PositiveSize
         /\ ~(Resolved.wx = 0 /\ Resolved.wy = 0)
         /\ 5 * BoundsInside(Resolved.ww, Resolved.wh) >= 4 * GroupCount )
       => OffsetApplied(Resolved.wx, Resolved.wy)]_vars

---------------------------------------------------------------------------
(* Properties of the window loop (SpecCollect) *)

EarlierKept == SubSeq(targets', 1, start) = SubSeq(targets, 1, start)

\* C9 (as amended): normalising a window's group leaves the targets of the
\* groups before it as they are and keeps the group's count, except that a
\* group in the broken-coordinate case whose geometry is unresolved, or
\* resolved with a width or height that is not positive, is removed whole;
\* the walk appends behind the earlier groups, and the next window's targets
\* start right after the last surviving target.
C9_WholeGroupOrNothing ==
    [][/\ AtNormalise =>
            /\ EarlierKept
            /\ n_targets' = Len(targets')
            /\ IF /\ GroupCount > 0
                  /\ 5 * GroupZeros >= 4 * GroupCount
                  /\ ~PositiveSize
               THEN GroupRemoved
               ELSE Len(targets') = Len(targets)
       /\ (pc = "walk" /\ stack # << >>) =>
            /\ EarlierKept
            /\ Len(targets') >= Len(targets)
       /\ (pc = "windows" /\ pc' = "walk") =>
            /\ targets' = targets
            /\ start' = Len(targets)]_vars

\* a third window starts right behind the first window's group, the second
\* window's group having been removed
C9_Witness ==
    /\ pc = "walk"
    /\ wins = 2
    /\ group.strategy = "dropped"
    /\ start > 0
    /\ start = Len(targets)

\* C9 as stated: the only group removed is one in the broken-coordinate case
\* whose geometry could not be resolved.
C9_Original ==
    [][AtNormalise =>
          /\ EarlierKept
          /\ \/ Len(targets') = Len(targets)
             \/ /\ GroupRemoved
                /\ 5 * GroupZeros >= 4 * GroupCount
                /\ ~Resolved.found]_vars

---------------------------------------------------------------------------
(* Properties of the walk of one large window (SpecWalk) *)

\* the node visited last was tested against the collected targets
Tested == pc = "walk" /\ node.outcome \in {"collected", "duplicate"}

\* the k-th collected target is within 4 units on both axes of that node
Near(k) ==
    /\ targets[k].x - node.x <= 4 /\ node.x - targets[k].x <= 4
    /\ targets[k].y - node.y <= 4 /\ node.y - targets[k].y <= 4

\* C10 (as amended): a candidate is dropped exactly if it is within 4 units on
\* both axes of one of the last 10 targets collected before it.  After ten
\* collected targets a candidate near the first or near the ninth is dropped;
\* after eleven, a candidate near the first alone is collected.
C10_LastTenOnly ==
    Tested =>
        /\ node.outcome = "duplicate" <=>
              \E k \in 1..node.n : k > node.n - 10 /\ Near(k)
        /\ (node.n = 10 /\ (Near(1) \/ Near(9))) => node.outcome = "duplicate"
        /\ (node.n = 11 /\ Near(1) /\ \A k \in 2..11 : ~Near(k))
              => node.outcome = "collected"

C10_Witness ==
    /\ Tested
    /\ node.n = 11
    /\ Near(1)
    /\ \A k \in 2..11 : ~Near(k)
    /\ Len(targets) = 12

\* C10 as stated: with the first ten candidates collected, an eleventh within
\* 4 units of the first alone is collected, and one within 4 units of the
\* ninth is dropped.
C10_Original ==
    (Tested /\ node.n = 10) =>
        /\ (Near(1) /\ \A k \in 2..10 : ~Near(k)) => node.outcome = "collected"
        /\ Near(9) => node.outcome = "duplicate"

\* the step is a call of walk on a node
Visit == pc = "walk" /\ visited' = visited + 1

\* the state set of the node visited was obtained and lacks visible or showing
NotShown == ~node'.ss.null /\ ~(node'.ss.visible /\ node'.ss.showing)

\* walk went on to the children of the node visited
Descended == Len(stack') = Len(stack) + 1

\* walk left the node and its subtree: nothing collected, no child visited
Skipped == targets' = targets /\ Len(stack') <= Len(stack)

\* C11 (as amended): a node at depth > 0 whose role lookup succeeds and whose
\* state set is obtained and lacks visible or showing is skipped with its
\* subtree.  A node whose role lookup fails is not collected and not tested
\* for visibility: walk goes on to its children.  A node whose state set is
\* not obtained is not skipped for visibility, and neither is the depth-0 root.
C11_HiddenSkippedUnlessRoleFails ==
    [][(Visit /\ node'.outcome # "returned") =>
          /\ (node'.depth > 0 /\ ~node'.role_err /\ NotShown)
                => (node'.outcome = "hidden" /\ Skipped)
          /\ node'.role_err
                => /\ node'.outcome = "not_candidate"
                   /\ targets' = targets
                   /\ node'.nc > 0 => Descended
          /\ (node'.depth = 0 \/ node'.ss.null)
                => /\ node'.outcome # "hidden"
                   /\ node'.nc > 0 => Descended]_vars

\* below the root walk visited a node that is not visible and whose role
\* lookup failed, and went on to its children
C11_Witness ==
    /\ pc = "walk"
    /\ node.depth = 1
    /\ node.role_err
    /\ ~node.ss.null
    /\ ~node.ss.visible
    /\ node.outcome = "not_candidate"
    /\ node.nc = 2
    /\ Len(stack) = 3
    /\ stack[3] = 2

\* C11 as stated: every node at depth > 0 that lacks visible or showing is
\* skipped with its subtree, whatever its other lookups answer; the depth-0
\* root is never skipped for visibility.
C11_Original ==
    [][Visit =>
          /\ (node'.depth > 0 /\ NotShown) => Skipped
          /\ node'.depth = 0 => node'.outcome # "hidden"]_vars

---------------------------------------------------------------------------
(* Properties of collector and normaliser together (SpecPipe) *)

\* the raw origins of the i-th and the j-th target are more than 4 units
\* apart on some axis
Apart(i, j) ==
    \/ targets[i].x - targets[j].x > 4 \/ targets[j].x - targets[i].x > 4
    \/ targets[i].y - targets[j].y > 4 \/ targets[j].y - targets[i].y > 4

\* C18: two targets of the list at most 10 places from one another, of one
\* window or of two, have raw origins more than 4 units apart on some axis;
\* so a group the normaliser finds broken holds exactly one target, and the
\* grid that target is put on is one cell, the window's rectangle inset by 30,
\* whose centre is the centre of the window.
C18_GridOnlyForOneTarget ==
    /\ \A i \in 1..Len(targets) : \A j \in 1..Len(targets) :
          (i < j /\ j - i <= 10) => Apart(i, j)
    /\ (AtNormalise /\ GroupCount > 0 /\ 5 * GroupZeros >= 4 * GroupCount)
          => GroupCount = 1
    /\ (pc = "windows" /\ group.strategy = "grid")
          => /\ group.count = 1
             /\ Len(targets) = start + 1
             /\ targets[start + 1].cx = group.geom.wx + (group.geom.ww \div 2)
             /\ targets[start + 1].cy = group.geom.wy + (group.geom.wh \div 2)

\* a second window's only target is at the origin, like the first of the
\* eleven targets of the window before: it is collected, the targets being 11
\* places apart, and put at the centre of its window
C18_Witness ==
    /\ pc = "windows"
    /\ wins = 2
    /\ Len(targets) = 12
    /\ start = 11
    /\ targets[1].x = 0 /\ targets[1].y = 0
    /\ targets[12].x = 0 /\ targets[12].y = 0
    /\ group.strategy = "grid"
    /\ group.count = 1
    /\ targets[12].cx = 500 + 390
    /\ targets[12].cy = 300 + 300

---------------------------------------------------------------------------
(* Properties of the walk of a deep window (SpecDeep) *)

\* the targets collected before the step are still there, unchanged
CollectedKept == SubSeq(targets', 1, Len(targets)) = targets

\* C12: the list never holds more than 1024 targets, and a collected target
\* comes from a node at most 30 levels below its window root.  A node deeper
\* than that is left with its subtree, and the target that fills the list ends
\* every child loop and the window loop; either way the targets collected
\* before stay and collect_all_targets goes on to return.
C12_BoundsStopAdmitting ==
    /\ [](/\ n_targets <= MAX_TARGETS
          /\ Len(targets) = n_targets
          /\ node.outcome = "collected" => node.depth <= 30)
    /\ [][Visit =>
            /\ CollectedKept
            /\ node'.depth > 30 => (node'.outcome = "returned" /\ Skipped)
            /\ n_targets' = MAX_TARGETS => stack' = << >>]_vars
    /\ [][(pc = "windows" /\ n_targets = MAX_TARGETS)
            => (pc' = "main" /\ targets' = targets)]_vars

\* collect_all_targets returned after the walk of a window left the node 31
\* levels below the root and kept the 31 targets of the levels above it
C12_Witness ==
    /\ pc = "main"
    /\ node.depth = 31
    /\ node.outcome = "returned"
    /\ n_targets = 31
    /\ visited = 32

---------------------------------------------------------------------------
(* Properties of the helpers of the geometry lookup (SpecFeed) *)

Returned(fn) == feed.fn = fn /\ feed.done

\* s occurs in t: t is some bytes, then s, then some bytes
OccursIn(s, t) ==
    \E i \in 0..Len(t) : \E j \in i..Len(t) : SubSeq(t, i + 1, j) = s

\* the number of leading bytes two titles have in common
Lead(a, b) ==
    SetMax({ k \in 0..Len(a) : k <= Len(b) /\ SubSeq(a, 1, k) = SubSeq(b, 1, k) })

Shorter(a, b) == IF Len(a) < Len(b) THEN Len(a) ELSE Len(b)

\* the three rules, lengths counted in bytes
ThreeRules(a, b) ==
    \/ OccursIn(a, b) \/ OccursIn(b, a)
    \/ Shorter(a, b) > 10 /\ Lead(a, b) = Shorter(a, b)
    \/ Lead(a, b) >= 20

\* C13 (as amended): two titles match exactly if both are non-empty and one
\* of the three rules holds, lengths counted in bytes; so the two Inbox titles
\* match, and so do "example.com/page" and "example.com/page?x=1", the first
\* being the start of the second.
C13_ThreeRulesNonEmpty ==
    Returned("titles_match") =>
        /\ feed.out = 1 <=>
              (feed.a # << >> /\ feed.b # << >> /\ ThreeRules(feed.a, feed.b))
        /\ feed.out \in {0, 1}
        /\ (feed.a = InboxMail /\ feed.b = InboxMailUnread) => feed.out = 1
        /\ (feed.a = ExamplePage /\ feed.b = ExamplePageQuery) => feed.out = 1

\* two titles of 20 common leading bytes, neither occurring in the other, match
C13_Witness ==
    /\ Returned("titles_match")
    /\ feed.a = TitleHead(20) \o << 49 >>
    /\ feed.b = TitleHead(20) \o << 50 >>
    /\ feed.out = 1

\* C13 as stated: two titles match exactly if one of the three rules holds;
\* the two Inbox titles match, the two example.com titles do not.
C13_Original ==
    Returned("titles_match") =>
        /\ feed.out = 1 <=> ThreeRules(feed.a, feed.b)
        /\ (feed.a = InboxMail /\ feed.b = InboxMailUnread) => feed.out = 1
        /\ (feed.a = ExamplePage /\ feed.b = ExamplePageQuery) => feed.out = 0

\* C15 as stated: json_int returns the default when the text does not hold
\* the field, and when it holds the field with a value that is no integer.
C15_Original ==
    Returned("json_int") =>
        /\ ~OccursIn(Pattern(feed.b), feed.a) => feed.out = feed.def
        /\ \A value \in NoIntValues :
              feed.a = Field(feed.b, value) => feed.out = feed.def

RECURSIVE CloseOf(_, _, _, _)
\* the closing brace of the text by the depth counter, read within the text:
\* a brace counts outside quoted strings, a backslash in a string takes the
\* byte after it along; 0 when no brace brings the depth back to zero
CloseOf(text, i, depth, quoted) ==
    IF i > Len(text) THEN 0
    ELSE IF quoted
    THEN IF text[i] = 92 THEN CloseOf(text, i + 2, depth, TRUE)
         ELSE CloseOf(text, i + 1, depth, text[i] # 34)
    ELSE IF text[i] = 34 THEN CloseOf(text, i + 1, depth, TRUE)
    ELSE IF text[i] = 123 THEN CloseOf(text, i + 1, depth + 1, FALSE)
    ELSE IF text[i] = 125 /\ depth = 1 THEN i
    ELSE IF text[i] = 125 THEN CloseOf(text, i + 1, depth - 1, FALSE)
    ELSE CloseOf(text, i + 1, depth, FALSE)

\* C16 as stated: on every text that starts with an opening brace the scan
\* ends, reads no byte behind the end of the text, and returns the closing
\* brace that brings the depth back to zero, or NULL when there is none.
C16_Original ==
    Returned("find_block_end") =>
        /\ ~feed.oob
        /\ feed.out = CloseOf(feed.a, 1, 0, FALSE)

---------------------------------------------------------------------------
(* Properties of label generation (SpecLabels) *)

Labelled == pc = "typing"

LabelSet == {targets[i].label : i \in 1..Len(targets)}

\* C4: after generate_labels the n labels are non-empty, pairwise distinct,
\* lowercase letters only, and of one common length.
C4_LabelsDistinctFixedWidth ==
    Labelled =>
        /\ Len(targets) = n_targets
        /\ Cardinality(LabelSet) = n_targets
        /\ \A l \in LabelSet :
              /\ Len(l) >= 1
              /\ Len(l) <= MAX_LABEL
              /\ Len(l) = Len(targets[1].label)
              /\ \A j \in 1..Len(l) : l[j] \in Lower

C4_Witness ==
    /\ Labelled
    /\ n_targets = 677
    /\ Len(targets[677].label) = 3

RECURSIVE Pow26(_)
Pow26(k) == IF k = 0 THEN 1 ELSE 26 * Pow26(k - 1)

\* the minimal width L with 26^L >= n
MinWidth(n) == CHOOSE L \in 1..MAX_LABEL :
                   /\ Pow26(L) >= n
                   /\ \A K \in 1..(L - 1) : Pow26(K) < n

\* index i in base 26, most significant digit first, a..z for 0..25, width L
Base26(i, L) == [j \in 1..L |-> 97 + ((i \div Pow26(L - j)) % 26)]

\* C5: for n <= 26 the label of index i is the letter 'a' + i; for n > 26 it
\* is i in base 26, most significant digit first, padded with 'a' to the
\* minimal width L with 26^L >= n; for n = 27: "aa", "az", "ba".
C5_LabelIsBase26 ==
    Labelled =>
        /\ \A i \in 0..(n_targets - 1) :
              targets[i + 1].label =
                  IF n_targets <= 26 THEN << 97 + i >>
                  ELSE Base26(i, MinWidth(n_targets))
        /\ n_targets = 27 =>
              /\ targets[1].label = << 97, 97 >>
              /\ targets[26].label = << 97, 122 >>
              /\ targets[27].label = << 98, 97 >>

C5_Witness ==
    /\ Labelled
    /\ n_targets = 27
    /\ targets[27].label = << 98, 97 >>

=============================================================================
